---- MODULE Spec2Model ----
(***************************************************************************)
(* Model of hsML/interaction_matrix.py: the interaction_matrix class that  *)
(* assembles the Stark and Zeeman matrices over a basis of states, with    *)
(* its in-memory cache and its disk cache methods.                         *)
(*                                                                         *)
(* Numbers.  The matrix elements are real numbers of the shape             *)
(*     (a + b) * rad                                                       *)
(* where a and b are signed square roots of rationals, s * sqrt(n / d),    *)
(* and rad is the value of the external radial_overlap.  They are kept     *)
(* exactly, as normalised records, so that two cells are equal in the      *)
(* model exactly when the real numbers are equal (a is the field-parallel  *)
(* part, weighted by a rational cos^2, whose radicand carries a factor     *)
(* 1/2 the perpendicular part b does not carry, so a + b determines a and  *)
(* b).  Floating-point rounding is not modelled.                           *)
(***************************************************************************)
EXTENDS Integers, Sequences, FiniteSets, TLC

VARIABLES
    type,      \* self.type, the lower-cased kind
    basis,     \* self.basis: [states, params]
    matrix,    \* self.matrix: [held |-> FALSE] is None, else m is the N x N array
    pc,        \* "new" | "loop" | "save" | "idle" | "dead"
    op,        \* the running (or last) operation: "__init__" | "populate" | "save_matrix"
    i, j,      \* loop indices of lines 28 and 30 (1-based)
    kw,        \* kwargs of the running (or last) populate call
    err,       \* exception the last call raised to its caller, or "none"
    nterms,    \* interaction_term calls made by the running (or last) call
    io,        \* cache functions the running (or last) populate call reached for
    disk,      \* files of matrices_dir: name -> stored array
    t1, t2,    \* arguments of the term calls (term specification)
    tkw,       \* kwargs of the term calls
    fwd, rev,  \* results of stark_interaction(t1, t2) and (t2, t1)
    ovl        \* result of angular_overlap(t1.L, t2.L, t1.ML, t2.ML)

bvars == <<type, basis, matrix, pc, op, i, j, kw, err, nterms, io, disk>>
tvars == <<t1, t2, tkw, fwd, rev, ovl>>
vars == <<type, basis, matrix, pc, op, i, j, kw, err, nterms, io, disk,
          t1, t2, tkw, fwd, rev, ovl>>

(***************************************************************************)
(* Bounds                                                                  *)
(***************************************************************************)
\* largest orbital quantum number L of the states the term calls draw
MaxL == 2
\* largest number of states in a basis
MaxN == 2

(***************************************************************************)
(* Exact arithmetic                                                        *)
(***************************************************************************)
abs(x) == IF x < 0 THEN -x ELSE x

sgn(x) == IF x < 0 THEN -1 ELSE IF x = 0 THEN 0 ELSE 1

RECURSIVE gcd(_, _)
gcd(a, b) == IF b = 0 THEN abs(a) ELSE gcd(b, a % abs(b))

\* s * sqrt(n / d) in lowest terms; d > 0
Surd(s, n, d) ==
    IF s = 0 \/ n = 0 THEN [s |-> 0, n |-> 0, d |-> 1]
    ELSE LET g == gcd(n, d) IN [s |-> s, n |-> n \div g, d |-> d \div g]

SurdZero == Surd(0, 0, 1)

\* (-1) ** k for an integer k
MinusOnePow(k) == IF k % 2 = 0 THEN 1 ELSE -1

NoRad == [pair |-> {}, p |-> 0]

\* the float 0.0
Zero == [a |-> SurdZero, b |-> SurdZero, rad |-> NoRad]

\* the float of an integer k
FromInt(k) == [a |-> Surd(sgn(k), k * k, 1), b |-> SurdZero, rad |-> NoRad]

\* overlap * radial, for a finite radial value
Times(ov, rad) ==
    IF ov.a.s = 0 /\ ov.b.s = 0 THEN Zero
    ELSE [a |-> ov.a, b |-> ov.b, rad |-> rad]

(***************************************************************************)
(* States, bases and keyword arguments                                     *)
(***************************************************************************)
State(n, L, ML) == [n_eff |-> n, L |-> L, ML |-> ML]

\* valid states: |ML| <= L
States == {s \in [n_eff : {10, 11}, L : 0..MaxL, ML : -MaxL..MaxL] : abs(s.ML) <= s.L}

BasisStates == {State(10, 0, 0), State(10, 1, 0), State(11, 1, 1)}

Params == [n_min |-> 10, n_max |-> 11, L_max |-> 1, S |-> 0, ML |-> 0, ML_max |-> 1]

Unique(seq) == \A x, y \in DOMAIN seq : x # y => seq[x] # seq[y]

Bases ==
    {[states |-> q, params |-> Params] :
        q \in {q \in UNION {[1..n -> BasisStates] : n \in 0..MaxN} : Unique(q)}}

Kinds == {"Stark", "zeeman", "foo"}

KwArgs(angles, allows, ps) ==
    [cache_matrices : BOOLEAN, load_matrices : BOOLEAN, save_matrices : BOOLEAN,
     matrices_dir : {"./"}, field_angle : angles, dM_allow : allows, p : ps]

\* the values kwargs.get falls back to
DefaultKw ==
    [cache_matrices |-> TRUE, load_matrices |-> FALSE, save_matrices |-> FALSE,
     matrices_dir |-> "./", field_angle |-> 0, dM_allow |-> {0}, p |-> 1]

BuilderKw == KwArgs({0, 90}, {{0}, {-1, 0, 1}}, {1})

\* save_matrix reads matrices_dir and field_angle only
SaveKw ==
    {k \in BuilderKw : k = [DefaultKw EXCEPT !.field_angle = k.field_angle]}

TermKw ==
    {k \in KwArgs({0, 45, 90, 180}, SUBSET {-1, 0, 1}, {1, 2}) :
        k.cache_matrices /\ ~k.load_matrices /\ ~k.save_matrices}

(***************************************************************************)
(* The interaction terms                                                   *)
(***************************************************************************)
\* np.cos(field_angle*(np.pi/180))**2, as <<numerator, denominator>>, for the
\* angles (whole degrees) the model draws; the exact value, where the float
\* differs from it in the last place
frac_para(field_angle) ==
    CASE field_angle = 0 -> <<1, 1>>
      [] field_angle = 45 -> <<1, 2>>
      [] field_angle = 90 -> <<0, 1>>
      [] field_angle = 180 -> <<1, 1>>

\* np.sin(field_angle*(np.pi/180))**2
frac_perp(field_angle) ==
    LET c == frac_para(field_angle) IN <<c[2] - c[1], c[2]>>

\* frac * (sign * (num/den)**0.5)
Weighted(frac, sign, num, den) ==
    Surd(sign * sgn(frac[1]), frac[1] * frac[1] * num, frac[2] * frac[2] * den)

\* variant of parallel_part without the dM in dM_allow gates
parallel_part_ungated(L, M, dL, dM, field_angle, dM_allow) ==
    LET fp == frac_para(field_angle) IN
    IF field_angle % 180 # 90
    THEN IF dM = 0
         THEN IF dL = 1 THEN Weighted(fp, 1, (L+1)*(L+1) - M*M, (2*L+3)*(2*L+1))
              ELSE IF dL = -1 THEN Weighted(fp, 1, L*L - M*M, (2*L+1)*(2*L-1))
              ELSE SurdZero
         ELSE IF dM = 1
         THEN IF dL = 1 THEN Weighted(fp, -1, (L+M+2)*(L+M+1), 2*(2*L+3)*(2*L+1))
              ELSE IF dL = -1 THEN Weighted(fp, 1, (L-M)*(L-M-1), 2*(2*L+1)*(2*L-1))
              ELSE SurdZero
         ELSE IF dM = -1
         THEN IF dL = 1 THEN Weighted(fp, 1, (L-M+2)*(L-M+1), 2*(2*L+3)*(2*L+1))
              ELSE IF dL = -1 THEN Weighted(fp, -1, (L+M)*(L+M-1), 2*(2*L+1)*(2*L-1))
              ELSE SurdZero
         ELSE SurdZero
    ELSE SurdZero

\* the branch of lines 75-90: the field-parallel part of the overlap
parallel_part(L, M, dL, dM, field_angle, dM_allow) ==
    LET fp == frac_para(field_angle) IN
    IF field_angle % 180 # 90
    THEN IF dM = 0 /\ dM \in dM_allow
         THEN IF dL = 1 THEN Weighted(fp, 1, (L+1)*(L+1) - M*M, (2*L+3)*(2*L+1))
              ELSE IF dL = -1 THEN Weighted(fp, 1, L*L - M*M, (2*L+1)*(2*L-1))
              ELSE SurdZero
         ELSE IF dM = 1 /\ dM \in dM_allow
         THEN IF dL = 1 THEN Weighted(fp, -1, (L+M+2)*(L+M+1), 2*(2*L+3)*(2*L+1))
              ELSE IF dL = -1 THEN Weighted(fp, 1, (L-M)*(L-M-1), 2*(2*L+1)*(2*L-1))
              ELSE SurdZero
         ELSE IF dM = -1 /\ dM \in dM_allow
         THEN IF dL = 1 THEN Weighted(fp, 1, (L-M+2)*(L-M+1), 2*(2*L+3)*(2*L+1))
              ELSE IF dL = -1 THEN Weighted(fp, -1, (L+M)*(L+M-1), 2*(2*L+1)*(2*L-1))
              ELSE SurdZero
         ELSE SurdZero
    ELSE SurdZero

\* the branch of lines 92-102: the field-perpendicular part; the factor 0.5
\* enters the denominator of the radicand as 4
perpendicular_part(L, M, dL, dM, field_angle) ==
    LET fq == frac_perp(field_angle) IN
    IF field_angle % 180 # 0
    THEN IF dM = 1
         THEN IF dL = 1
              THEN Weighted(fq, MinusOnePow(M - 2*L), (L+M+1)*(L+M+2), 4*(2*L+1)*(2*L+3))
              ELSE IF dL = -1
              THEN Weighted(fq, -MinusOnePow(-M + 2*L), (L-M-1)*(L-M), 4*(2*L-1)*(2*L+1))
              ELSE SurdZero
         ELSE IF dM = -1
         THEN IF dL = 1
              THEN Weighted(fq, MinusOnePow(M - 2*L), (L-M+1)*(L-M+2), 4*(2*L+1)*(2*L+3))
              ELSE IF dL = -1
              THEN Weighted(fq, -MinusOnePow(-M + 2*L), (L+M-1)*(L+M), 4*(2*L-1)*(2*L+1))
              ELSE SurdZero
         ELSE SurdZero
    ELSE SurdZero

\* overlap = 0.0 + parallel part + perpendicular part
angular_overlap(L_1, L_2, M_1, M_2, kwargs) ==
    LET dL == L_2 - L_1
        dM == M_2 - M_1
    IN  [a |-> parallel_part(L_1, M_1, dL, dM, kwargs.field_angle, kwargs.dM_allow),
         b |-> perpendicular_part(L_1, M_1, dL, dM, kwargs.field_angle)]

\* the external radial integral: one value per unordered pair {(n1, L1), (n2, L2)}
\* and exponent p
radial_overlap(n_1, L_1, n_2, L_2, p) ==
    [pair |-> {<<n_1, L_1>>, <<n_2, L_2>>}, p |-> p]

\* variant of stark_interaction with the selection rule |dL| <= 1
stark_interaction_loose(state_1, state_2, kwargs) ==
    LET dL == state_2.L - state_1.L
        dM == state_2.ML - state_1.ML
    IN  IF abs(dL) <= 1 /\ abs(dM) <= 1
        THEN [value |-> Times(angular_overlap(state_1.L, state_2.L, state_1.ML, state_2.ML, kwargs),
                              radial_overlap(state_1.n_eff, state_1.L, state_2.n_eff, state_2.L, kwargs.p)),
              evaluated |-> {"angular_overlap", "radial_overlap"}]
        ELSE [value |-> Zero, evaluated |-> {}]

\* value: the returned float; evaluated: the functions the call evaluated
stark_interaction(state_1, state_2, kwargs) ==
    LET dL == state_2.L - state_1.L
        dM == state_2.ML - state_1.ML
    IN  IF abs(dL) = 1 /\ abs(dM) <= 1
        THEN [value |-> Times(angular_overlap(state_1.L, state_2.L, state_1.ML, state_2.ML, kwargs),
                              radial_overlap(state_1.n_eff, state_1.L, state_2.n_eff, state_2.L, kwargs.p)),
              evaluated |-> {"angular_overlap", "radial_overlap"}]
        ELSE [value |-> Zero, evaluated |-> {}]

\* variant of zeeman_interaction comparing L alone
zeeman_interaction_same_L(state_1, state_2) ==
    IF state_1.L = state_2.L THEN FromInt(state_1.ML) ELSE Zero

\* states are equal when all their attributes are
zeeman_interaction(state_1, state_2) ==
    IF state_1 = state_2 THEN FromInt(state_1.ML) ELSE Zero

\* variant of interaction_term that treats every other kind as zeeman
interaction_term_lenient(self_type, state_1, state_2, kwargs) ==
    IF self_type = "stark"
    THEN [raised |-> FALSE, value |-> stark_interaction(state_1, state_2, kwargs).value]
    ELSE [raised |-> FALSE, value |-> zeeman_interaction(state_1, state_2)]

\* raised: the call raised Exception("Interaction term ... is not recognised.")
interaction_term(self_type, state_1, state_2, kwargs) ==
    IF self_type = "stark"
    THEN [raised |-> FALSE, value |-> stark_interaction(state_1, state_2, kwargs).value]
    ELSE IF self_type = "zeeman"
    THEN [raised |-> FALSE, value |-> zeeman_interaction(state_1, state_2)]
    ELSE [raised |-> TRUE, value |-> Zero]

(***************************************************************************)
(* The disk cache methods                                                  *)
(***************************************************************************)
\* str.lower on the kinds the model constructs builders with
lower(matrix_type) ==
    CASE matrix_type = "Stark" -> "stark"
      [] matrix_type = "Zeeman" -> "zeeman"
      [] OTHER -> matrix_type

\* file names are sequences of string pieces; str(x) is ToString(x)
filename(self_basis) ==
    <<"n=", ToString(self_basis.params.n_min), "-", ToString(self_basis.params.n_max), "_",
      "L_max=", ToString(self_basis.params.L_max), "_",
      "S=", ToString(self_basis.params.S), "_",
      "ML=", ToString(self_basis.params.ML), "_",
      "ML_max=", ToString(self_basis.params.ML_max)>>

\* lines 113-116, 124-127 and 137-140: the name before any extension
stem(self_type, self_basis, kwargs) ==
    LET f == <<self_type, "_">> \o filename(self_basis) IN
    IF self_type = "stark"
    THEN f \o <<"_angle_", ToString(kwargs.field_angle)>>
    ELSE f

\* the path np.savez_compressed writes: it appends .npz unless already there
save_path(self_type, self_basis, kwargs) ==
    LET f == <<kwargs.matrices_dir>> \o stem(self_type, self_basis, kwargs) IN
    IF f[Len(f)] = ".npz" THEN f ELSE Append(f, ".npz")

\* the path load_matrix and check_matrix build
load_path(self_type, self_basis, kwargs) ==
    <<kwargs.matrices_dir>> \o stem(self_type, self_basis, kwargs) \o <<".npz">>

\* the disk after self.save_matrix(**kwargs)
save_matrix(files, self_type, self_basis, self_matrix, kwargs) ==
    (save_path(self_type, self_basis, kwargs) :> self_matrix) @@ files

\* the array self.load_matrix(**kwargs) returns
load_matrix(files, self_type, self_basis, kwargs) ==
    files[load_path(self_type, self_basis, kwargs)]

\* os.path.isfile of the path
check_matrix(files, self_type, self_basis, kwargs) ==
    load_path(self_type, self_basis, kwargs) \in DOMAIN files

(***************************************************************************)
(* The builder                                                             *)
(***************************************************************************)
None == [held |-> FALSE, m |-> <<>>]

Held(m) == [held |-> TRUE, m |-> m]

num_states(self_basis) == Len(self_basis.states)

\* np.zeros([num_states, num_states])
zeros(n) == [r \in 1..n |-> [c \in 1..n |-> Zero]]

\* variant of use_cached that never keeps the held matrix
always_recompute(self_matrix, kwargs) == FALSE

\* line 22 negated: the held matrix is kept (the else branch of line 36)
use_cached(self_matrix, kwargs) ==
    ~(self_matrix = None \/ kwargs.cache_matrices = FALSE)

\* where control goes when the running call raises
Raised == IF op' = "__init__" THEN "dead" ELSE "idle"

\* line 34 onwards, once the loops are done
AfterLoops(kwargs) == IF kwargs.save_matrices THEN "save" ELSE "idle"

\* lines 20-27 of populate_interaction_matrix, entered with self.matrix = m0
Enter(m0, kwargs) ==
    /\ kw' = kwargs
    /\ nterms' = 0
    /\ UNCHANGED disk
    /\ IF use_cached(m0, kwargs)
       THEN \* line 37
            /\ matrix' = m0
            /\ io' = {}
            /\ pc' = "idle"
            /\ err' = "none"
            /\ i' = 0 /\ j' = 0
       ELSE IF kwargs.load_matrices
       THEN \* line 24: check_matrix is a method of the class, no name of the
            \* module: the bare name raises NameError
            /\ matrix' = m0
            /\ io' = {"check_matrix"}
            /\ pc' = Raised
            /\ err' = "NameError"
            /\ i' = 0 /\ j' = 0
       ELSE \* line 27
            /\ matrix' = Held(zeros(num_states(basis')))
            /\ io' = {}
            /\ err' = "none"
            /\ IF num_states(basis') = 0
               THEN pc' = AfterLoops(kwargs) /\ i' = 0 /\ j' = 0
               ELSE pc' = "loop" /\ i' = 1 /\ j' = 1

\* interaction_matrix(matrix_type, basis, **kwargs): lines 11-15
Construct(matrix_type, b, kwargs) ==
    /\ pc = "new"
    /\ type' = lower(matrix_type)
    /\ basis' = b
    /\ op' = "__init__"
    /\ Enter(None, kwargs)

\* a fresh builder of the same kind over the same basis, the disk as it is
ConstructAgain(kwargs) ==
    /\ pc \in {"idle", "dead"}
    /\ UNCHANGED <<type, basis>>
    /\ op' = "__init__"
    /\ Enter(None, kwargs)

\* a later self.populate_interaction_matrix(**kwargs)
Populate(kwargs) ==
    /\ pc = "idle"
    /\ UNCHANGED <<type, basis>>
    /\ op' = "populate"
    /\ Enter(matrix, kwargs)

\* variant of set_cell without line 33
no_mirror(m, r, c, v) == [m EXCEPT ![r][c] = v]

\* lines 31 and 33
set_cell(m, r, c, v) == [m EXCEPT ![r][c] = v, ![c][r] = v]

\* one pass of the body of the inner loop, lines 30-33, and the loop control
ComputeCell ==
    /\ pc = "loop"
    /\ UNCHANGED <<type, basis, op, kw, io, disk>>
    /\ nterms' = nterms + 1
    /\ LET t == interaction_term(type, basis.states[i], basis.states[j], kw) IN
       IF t.raised
       THEN /\ err' = "Exception"
            /\ pc' = Raised
            /\ UNCHANGED <<matrix, i, j>>
       ELSE /\ matrix' = Held(set_cell(matrix.m, i, j, t.value))
            /\ err' = "none"
            /\ IF j < num_states(basis) THEN i' = i /\ j' = j + 1 /\ pc' = "loop"
               ELSE IF i < num_states(basis) THEN i' = i + 1 /\ j' = i + 1 /\ pc' = "loop"
               ELSE i' = 0 /\ j' = 0 /\ pc' = AfterLoops(kw)

\* line 35: save_matrix is a method of the class, no name of the module: the
\* bare name raises NameError and nothing is written
SaveStep ==
    /\ pc = "save"
    /\ UNCHANGED <<type, basis, op, kw, nterms, disk, matrix, i, j>>
    /\ io' = io \cup {"save_matrix"}
    /\ err' = "NameError"
    /\ pc' = Raised

\* self.save_matrix(**kwargs) called on a constructed builder: lines 112-121
SaveMatrixCall(kwargs) ==
    /\ pc = "idle"
    /\ UNCHANGED <<type, basis, kw, nterms, io, matrix, i, j>>
    /\ op' = "save_matrix"
    /\ disk' = save_matrix(disk, type, basis, matrix.m, kwargs)
    /\ err' = "none"
    /\ pc' = "idle"

NoBuilder ==
    /\ type = ""
    /\ basis = [states |-> <<>>, params |-> Params]
    /\ matrix = None
    /\ pc = "new"
    /\ op = "none"
    /\ i = 0 /\ j = 0
    /\ kw = DefaultKw
    /\ err = "none"
    /\ nterms = 0
    /\ io = {}
    /\ disk = <<>>

NotCalled == [done |-> FALSE]

Init ==
    /\ NoBuilder
    /\ t1 = State(10, 0, 0) /\ t2 = State(10, 0, 0) /\ tkw = DefaultKw
    /\ fwd = NotCalled /\ rev = NotCalled /\ ovl = NotCalled

Next ==
    \/ \E k \in Kinds, b \in Bases, kwargs \in BuilderKw : Construct(k, b, kwargs) /\ UNCHANGED tvars
    \/ \E kwargs \in BuilderKw : ConstructAgain(kwargs) /\ UNCHANGED tvars
    \/ \E kwargs \in BuilderKw : Populate(kwargs) /\ UNCHANGED tvars
    \/ ComputeCell /\ UNCHANGED tvars
    \/ SaveStep /\ UNCHANGED tvars
    \/ \E kwargs \in SaveKw :
          SaveMatrixCall(kwargs) /\ UNCHANGED tvars

Spec == Init /\ [][Next]_vars

(***************************************************************************)
(* The term specification: stark_interaction and angular_overlap called    *)
(* on every pair of valid states under every configuration                 *)
(***************************************************************************)
Returned(r) == [done |-> TRUE, value |-> r.value, evaluated |-> r.evaluated]

\* self.stark_interaction(t1, t2, **tkw)
CallStark ==
    /\ ~fwd.done
    /\ fwd' = Returned(stark_interaction(t1, t2, tkw))
    /\ UNCHANGED <<t1, t2, tkw, rev, ovl>>

\* self.stark_interaction(t2, t1, **tkw)
CallStarkSwapped ==
    /\ ~rev.done
    /\ rev' = Returned(stark_interaction(t2, t1, tkw))
    /\ UNCHANGED <<t1, t2, tkw, fwd, ovl>>

\* self.angular_overlap(t1.L, t2.L, t1.ML, t2.ML, **tkw)
CallAngular ==
    /\ ~ovl.done
    /\ ovl' = [done |-> TRUE, value |-> angular_overlap(t1.L, t2.L, t1.ML, t2.ML, tkw)]
    /\ UNCHANGED <<t1, t2, tkw, fwd, rev>>

InitTerm ==
    /\ NoBuilder
    /\ t1 \in States /\ t2 \in States /\ tkw \in TermKw
    /\ fwd = NotCalled /\ rev = NotCalled /\ ovl = NotCalled

NextTerm ==
    \/ CallStark /\ UNCHANGED bvars
    \/ CallStarkSwapped /\ UNCHANGED bvars
    \/ CallAngular /\ UNCHANGED bvars

SpecTerm == InitTerm /\ [][NextTerm]_vars

(***************************************************************************)
(* Properties of the builder (specification Spec)                          *)
(***************************************************************************)
N == num_states(basis)

Recognised == type \in {"stark", "zeeman"}

\* a populate call, made by __init__ or later, has returned or raised
CallOver == pc \in {"idle", "dead"} /\ op \in {"__init__", "populate"}

\* the call that is over did not take the cached branch of line 36
Rebuilt == CallOver /\ (op = "__init__" \/ ~kw.cache_matrices)

\* every cell of the upper triangle has been computed
NumCells == (N * (N + 1)) \div 2

\* C1: whenever a builder is at rest (constructed, and after any later
\* populate_interaction_matrix call returned or raised), the matrix it holds
\* is symmetric: matrix[r][c] = matrix[c][r] for all r, c.
C1_MatrixSymmetric ==
    pc = "idle" =>
        /\ matrix.held
        /\ \A r, c \in 1..N : matrix.m[r][c] = matrix.m[c][r]

C1_Witness ==
    /\ pc = "idle" /\ type = "stark" /\ N = 2
    /\ matrix.m[1][2] # Zero
    /\ \E r \in 1..N : matrix.m[r][r] = Zero

\* C2 as stated: with a kind that is neither stark nor zeeman every build
\* fails with the not-recognised Exception, and no matrix is held.
C2_UnknownKindAlwaysFails ==
    (CallOver /\ ~Recognised) =>
        /\ pc = "dead"
        /\ err = "Exception"
        /\ matrix = None

\* C2 amended: with a kind that is neither stark nor zeeman, a build over a
\* non-empty basis never yields a builder, and fails before any term is
\* computed: with load_matrices false the first interaction_term call raises
\* the Exception, the failed builder holding the all-zero matrix just
\* allocated; with load_matrices true the call fails before that with
\* NameError and holds nothing.  Over an empty basis the Exception is never
\* raised.
C2_UnknownKindFailsAtFirstTerm ==
    (pc # "new" /\ ~Recognised) =>
        /\ N > 0 =>
            /\ pc \in {"loop", "dead"}
            /\ pc = "loop" => i = 1 /\ j = 1 /\ nterms = 0 /\ matrix = Held(zeros(N))
            /\ pc = "dead" =>
                   IF kw.load_matrices
                   THEN err = "NameError" /\ nterms = 0 /\ matrix = None
                   ELSE err = "Exception" /\ nterms = 1 /\ matrix = Held(zeros(N))
        /\ N = 0 => err # "Exception" /\ nterms = 0

C2_Witness ==
    /\ type = "foo" /\ pc = "dead" /\ err = "Exception"
    /\ N = 2 /\ matrix = Held(zeros(2))

\* C3: a populate call made while a matrix is held and cache_matrices is
\* true leaves the matrix as it is, computes no term, reaches for no cache
\* function, leaves the disk alone and returns, whatever the other options;
\* a populate call that changes the matrix has cache_matrices false.
C3_CachedCallChangesNothing ==
    [][\A kwargs \in BuilderKw :
          Populate(kwargs) =>
              /\ (matrix.held /\ kwargs.cache_matrices) =>
                     /\ matrix' = matrix
                     /\ nterms' = 0 /\ io' = {}
                     /\ disk' = disk
                     /\ pc' = "idle" /\ err' = "none"
              /\ (matrix' # matrix \/ pc' = "loop") => ~kwargs.cache_matrices]_vars

C3_Witness ==
    /\ pc = "idle" /\ op = "populate" /\ err = "none"
    /\ kw.cache_matrices /\ kw.load_matrices /\ kw.save_matrices
    /\ kw.field_angle = 90
    /\ type = "stark" /\ N = 2 /\ matrix.m[1][2].a # SurdZero
    /\ nterms = 0 /\ io = {}

\* C4 as stated: a build that does not take the cached branch, with
\* load_matrices true and the matching file on disk, ends holding the file's
\* matrix, having computed no term; with load_matrices false or no matching
\* file it computes every cell.
C4_LoadsMatchingFile ==
    (Rebuilt /\ Recognised) =>
        IF kw.load_matrices /\ check_matrix(disk, type, basis, kw)
        THEN /\ err = "none"
             /\ matrix = Held(load_matrix(disk, type, basis, kw))
             /\ nterms = 0
        ELSE nterms = NumCells

\* C5 as stated: after a build with save_matrices true that computed its
\* matrix, the file check_matrix and load_matrix resolve for the same kind,
\* basis parameters and configuration exists and holds that matrix.
C5_SavedMatrixLoadsBack ==
    (Rebuilt /\ Recognised /\ ~kw.load_matrices /\ kw.save_matrices) =>
        /\ err = "none"
        /\ check_matrix(disk, type, basis, kw)
        /\ load_matrix(disk, type, basis, kw) = matrix.m

\* C8: the matrix of a zeeman builder at rest has the ML of state r in cell
\* (r, r) and 0.0 in every cell off the diagonal.
C8_ZeemanDiagonal ==
    (pc = "idle" /\ type = "zeeman") =>
        \A r, c \in 1..N :
            matrix.m[r][c] = IF r = c THEN FromInt(basis.states[r].ML) ELSE Zero

C8_Witness ==
    /\ pc = "idle" /\ type = "zeeman" /\ N = 2
    /\ basis.states[1].ML = 1 /\ basis.states[2].L = basis.states[1].L
    /\ matrix.m[1][1] = FromInt(1)

\* C10 as stated: when the save of a build with save_matrices true fails, the
\* caller gets an IOError, every cell has been computed, and the matrix held
\* is the computed one.
C10_FailedSaveIsIOError ==
    (Rebuilt /\ Recognised /\ "save_matrix" \in io /\ err # "none") =>
        /\ err = "IOError"
        /\ nterms = NumCells
        /\ \A r, c \in 1..N :
               r <= c => matrix.m[r][c] = interaction_term(type, basis.states[r], basis.states[c], kw).value

(***************************************************************************)
(* Properties of the terms (specification SpecTerm)                        *)
(***************************************************************************)
dL == t2.L - t1.L

dM == t2.ML - t1.ML

\* C6: stark_interaction returns exactly 0.0, and evaluates neither
\* angular_overlap nor radial_overlap, for every pair of states with
\* |dL| # 1 or |dM| > 1.
C6_SelectionRule ==
    (fwd.done /\ (abs(dL) # 1 \/ abs(dM) > 1)) =>
        fwd.value = Zero /\ fwd.evaluated = {}

C6_Witness ==
    fwd.done /\ dL = 0 /\ dM = 2 /\ tkw.field_angle = 90

\* C7: for |dL| = 1, at field_angle 0 the overlap is the parallel
\* contribution alone (no perpendicular part; 0 for dM = +1 or -1 under
\* dM_allow = {0}; sqrt(((L+1)^2 - M^2)/((2L+3)(2L+1))) for dM = 0, dL = +1),
\* and at field_angle 90 it is the perpendicular contribution alone (no
\* parallel part; 0 for dM = 0;
\* (-1)^(M-2L)/2 * sqrt((L+M+1)(L+M+2)/((2L+1)(2L+3))) for dM = +1, dL = +1).
C7_PureAngles ==
    (ovl.done /\ abs(dL) = 1) =>
        LET L == t1.L
            M == t1.ML
        IN  /\ tkw.field_angle = 0 =>
                /\ ovl.value.b = SurdZero
                /\ (tkw.dM_allow = {0} /\ abs(dM) = 1) => ovl.value.a = SurdZero
                /\ (0 \in tkw.dM_allow /\ dM = 0 /\ dL = 1) =>
                       ovl.value.a = Surd(1, (L+1)*(L+1) - M*M, (2*L+3)*(2*L+1))
            /\ tkw.field_angle = 90 =>
                /\ ovl.value.a = SurdZero
                /\ dM = 0 => ovl.value.b = SurdZero
                /\ (dM = 1 /\ dL = 1) =>
                       ovl.value.b = Surd(MinusOnePow(M), (L+M+1)*(L+M+2), 4*(2*L+1)*(2*L+3))

C7_Witness ==
    /\ ovl.done /\ dL = 1 /\ dM = 1
    /\ tkw.field_angle = 0 /\ tkw.dM_allow = {0}
    /\ ovl.value = [a |-> SurdZero, b |-> SurdZero]

\* C9 as stated: for every pair of valid states and every configuration,
\* stark_interaction(s1, s2) equals stark_interaction(s2, s1).
C9_StarkSymmetric ==
    (fwd.done /\ rev.done) => fwd.value = rev.value

====
